---- MODULE Spec2Model ----
(***************************************************************************)
(* A state-machine model of SceneManager (Source/SceneManager.cpp): the     *)
(* texture registry (m_textureIDs, m_loadedTextures), the material registry *)
(* (m_objectMaterials), the shader uniforms the class writes through the    *)
(* ShaderManager, the OpenGL texture state its calls change, and the two    *)
(* scene routines PrepareScene and RenderScene, which run call by call.     *)
(*                                                                          *)
(* Floating-point literals are kept exactly, in thousandths (0.15f is 150); *)
(* matrices hold thousandths too (1.0f is 1000), and a product of two       *)
(* entries is brought back to thousandths, exactly whenever the rotations   *)
(* are by multiples of 90 degrees.                                          *)
(***************************************************************************)
EXTENDS Integers, Sequences, FiniteSets, TLC

VARIABLES
    m_pShaderManager,   \* "bound" or "NULL": the pointer the constructor got
    m_loadedTextures,   \* int m_loadedTextures
    m_textureIDs,       \* memory at m_textureIDs[i]: [tag, ID], i = 0, 1, ...
    m_objectMaterials,  \* std::vector<OBJECT_MATERIAL>
    uniforms,           \* the shader program's uniform values
    glNextName,         \* the next texture name glGenTextures returns
    glActiveUnit,       \* glActiveTexture's current unit
    glUnitTex2D,        \* unit -> texture bound to GL_TEXTURE_2D (0: none)
    glTexFormat,        \* texture name -> internal format of its image
    liveImages,         \* decoded stbi image buffers not yet freed
    meshLoads,          \* number of times the four meshes were loaded
    imageChannels,      \* file -> channels stbi_load reports (0: no decode)
    pc,                 \* the routine (and its phase) that is running
    scriptPos,          \* the next call of the running routine
    prepareCount,       \* completed or started PrepareScene calls
    crashed,            \* the process was terminated by a memory fault
    lastCall,           \* the last call made: what it was and what it returned
    written,            \* the uniform names the last call wrote
    lastFlagWriter      \* the last of SetShaderColor / SetShaderTexture to run

vars == <<m_pShaderManager, m_loadedTextures, m_textureIDs, m_objectMaterials,
          uniforms, glNextName, glActiveUnit, glUnitTex2D, glTexFormat,
          liveImages, meshLoads, imageChannels, pc, scriptPos, prepareCount,
          crashed, lastCall, written, lastFlagWriter>>

registries == <<m_loadedTextures, m_textureIDs, m_objectMaterials>>

glState == <<glNextName, glActiveUnit, glUnitTex2D, glTexFormat>>

-----------------------------------------------------------------------------
(* Bounds of the model *)

\* PrepareScene is run at most this many times
MaxPrepare == 3

\* at most this many of the seven image files are not plain 3-channel images
MaxOddImages == 1

-----------------------------------------------------------------------------
(* Program constants *)

\* "There are up to 16 slots": the length of m_textureIDs
TextureCapacity == 16

\* the not-found value of FindTextureID and FindTextureSlot
NotFound == -1

g_ModelName == "model"

g_ColorValueName == "objectColor"

g_TextureValueName == "objectTexture"

g_UseTextureName == "bUseTexture"

g_UseLightingName == "bUseLighting"

\* the files and tags of LoadSceneTextures, in call order
SceneTextures ==
    << [file |-> "textures/leather1.jpg",       tag |-> "dash"],
       [file |-> "textures/tesla_screen.jpg",   tag |-> "screen"],
       [file |-> "textures/leatherwhite.jpg",   tag |-> "base"],
       [file |-> "textures/metalgrid.jpg",      tag |-> "ground"],
       [file |-> "textures/grayleather.jpg",    tag |-> "dashText"],
       [file |-> "textures/black_plastic.jpg",  tag |-> "plastic"],
       [file |-> "textures/steering_wheel.jpg", tag |-> "wheel"] >>

Files == { SceneTextures[i].file : i \in 1..Len(SceneTextures) }

TextureTags == { SceneTextures[i].tag : i \in 1..Len(SceneTextures) }

\* the tags a lookup is asked for: the scene's, and one that is never loaded
LookupTags == TextureTags \cup {"nonexistent"}

\* the materials DefineObjectMaterials appends, in order
SceneMaterials ==
    << [tag |-> "matteblack",  diffuseColor |-> <<100, 100, 100>>,
        specularColor |-> <<100, 100, 100>>, shininess |-> 8000],
       [tag |-> "polishwhite", diffuseColor |-> <<950, 950, 950>>,
        specularColor |-> <<500, 500, 500>>, shininess |-> 32000],
       [tag |-> "glassscreen", diffuseColor |-> <<100, 100, 100>>,
        specularColor |-> <<900, 900, 900>>, shininess |-> 128000],
       [tag |-> "dashmat",     diffuseColor |-> <<300, 300, 300>>,
        specularColor |-> <<100, 100, 100>>, shininess |-> 4000],
       [tag |-> "plastic",     diffuseColor |-> <<150, 150, 150>>,
        specularColor |-> <<300, 300, 300>>, shininess |-> 16000] >>

MaterialTags == { SceneMaterials[i].tag : i \in 1..Len(SceneMaterials) }

\* the material tags a lookup is asked for
MaterialLookupTags == MaterialTags \cup {"metal", "nonexistent"}

\* What the fields of "OBJECT_MATERIAL material;" can hold before anything is
\* assigned to them: the local is not initialised, its value is indeterminate.
UninitMaterials ==
    { [diffuseColor |-> <<0, 0, 0>>, specularColor |-> <<0, 0, 0>>,
       shininess |-> 0],
      [diffuseColor |-> <<-7, -7, -7>>, specularColor |-> <<-7, -7, -7>>,
       shininess |-> -7] }

\* the memory the model keeps at and after m_textureIDs: every index a load
\* can write within MaxPrepare runs of LoadSceneTextures
MemSlots == MaxPrepare * Len(SceneTextures)

EmptySlot == [tag |-> "", ID |-> 0]

\* the arguments of a call that is not a SetTransformations call
NoXf == [scale |-> <<0, 0, 0>>, rot |-> <<0, 0, 0>>, pos |-> <<0, 0, 0>>]

NoCall == [op |-> "none", tag |-> "", file |-> "", ret |-> "void",
           val |-> 0, aux |-> 0, xf |-> NoXf]

Call(op, tag, file, ret, val, aux) ==
    [op |-> op, tag |-> tag, file |-> file, ret |-> ret, val |-> val,
     aux |-> aux, xf |-> NoXf]

-----------------------------------------------------------------------------
(* The lookups *)

\* the while loop of FindTextureID, from its state (index, bFound, textureID)
RECURSIVE FindTextureIDLoop(_, _, _, _)
FindTextureIDLoop(tag, index, bFound, textureID) ==
    IF (index < m_loadedTextures) /\ (bFound = FALSE)
    THEN IF m_textureIDs[index].tag = tag
         THEN FindTextureIDLoop(tag, index, TRUE, m_textureIDs[index].ID)
         ELSE FindTextureIDLoop(tag, index + 1, bFound, textureID)
    ELSE textureID

FindTextureID(tag) == FindTextureIDLoop(tag, 0, FALSE, NotFound)

\* the while loop of FindTextureSlot, from its state (index, bFound, textureSlot)
RECURSIVE FindTextureSlotLoop(_, _, _, _)
FindTextureSlotLoop(tag, index, bFound, textureSlot) ==
    IF (index < m_loadedTextures) /\ (bFound = FALSE)
    THEN IF m_textureIDs[index].tag = tag
         THEN FindTextureSlotLoop(tag, index, TRUE, index)
         ELSE FindTextureSlotLoop(tag, index + 1, bFound, textureSlot)
    ELSE textureSlot

\* a scan that keeps going after a match: the last match wins
RECURSIVE FindTextureSlotLastLoop(_, _, _)
FindTextureSlotLastLoop(tag, index, textureSlot) ==
    IF index < m_loadedTextures
    THEN FindTextureSlotLastLoop(tag, index + 1,
             IF m_textureIDs[index].tag = tag THEN index ELSE textureSlot)
    ELSE textureSlot

FindTextureSlotLast(tag) == FindTextureSlotLastLoop(tag, 0, NotFound)

FindTextureSlot(tag) == FindTextureSlotLoop(tag, 0, FALSE, NotFound)

\* the while loop of FindMaterial over the vector (0-based index), from its
\* state (index, bFound, material): the output material as the loop leaves it
RECURSIVE FindMaterialLoop(_, _, _, _)
FindMaterialLoop(tag, index, bFound, material) ==
    IF (index < Len(m_objectMaterials)) /\ (bFound = FALSE)
    THEN IF m_objectMaterials[index + 1].tag = tag
         THEN FindMaterialLoop(tag, index, TRUE,
                  [diffuseColor  |-> m_objectMaterials[index + 1].diffuseColor,
                   specularColor |-> m_objectMaterials[index + 1].specularColor,
                   shininess     |-> m_objectMaterials[index + 1].shininess])
         ELSE FindMaterialLoop(tag, index + 1, bFound, material)
    ELSE material

\* whether the loop of FindMaterial finds a match
MaterialFound(tag) ==
    \E i \in 1..Len(m_objectMaterials) : m_objectMaterials[i].tag = tag

\* a FindMaterial that returns bFound
FindMaterialFound(tag, material) ==
    [ret |-> MaterialFound(tag),
     material |-> FindMaterialLoop(tag, 0, FALSE, material)]

\* FindMaterial(tag, material&): the returned bool and the output material
FindMaterial(tag, material) ==
    IF Len(m_objectMaterials) = 0
    THEN [ret |-> FALSE, material |-> material]
    ELSE [ret |-> TRUE, material |-> FindMaterialLoop(tag, 0, FALSE, material)]

-----------------------------------------------------------------------------
(* The state after construction *)

\* the image files as stbi_load finds them: 0 when the file does not decode,
\* else its channel count; at most MaxOddImages files are not 3-channel
ImageSets ==
    { f \in [Files -> {0, 1, 3, 4}] :
        Cardinality({ x \in Files : f[x] # 3 }) <= MaxOddImages }

InitialUniforms ==
    [model |-> <<<<0, 0, 0, 0>>, <<0, 0, 0, 0>>, <<0, 0, 0, 0>>,
                 <<0, 0, 0, 0>>>>,
     objectColor |-> <<0, 0, 0, 0>>,
     objectTexture |-> 0,
     bUseTexture |-> 0,
     bUseLighting |-> 0,
     UVscale |-> <<0, 0>>,
     material_diffuseColor |-> <<0, 0, 0>>,
     material_specularColor |-> <<0, 0, 0>>,
     material_shininess |-> 0,
     lights |-> "off"]

\* The constructor assigns m_pShaderManager and m_basicMeshes only.  The entry
\* count it leaves is the one the member's declaration gives (SceneManager.h):
\* the registry starts empty.
InitialLoadedTextures == 0

Init ==
    /\ m_pShaderManager \in {"bound", "NULL"}
    /\ m_loadedTextures = InitialLoadedTextures
    /\ m_textureIDs = [i \in 0..(MemSlots - 1) |-> EmptySlot]
    /\ m_objectMaterials = << >>
    /\ uniforms = InitialUniforms
    /\ glNextName = 1
    /\ glActiveUnit = 0
    /\ glUnitTex2D = [u \in 0..(MemSlots - 1) |-> 0]
    /\ glTexFormat = << >>
    /\ liveImages = 0
    /\ meshLoads = 0
    /\ imageChannels \in ImageSets
    /\ pc = "idle"
    /\ scriptPos = 0
    /\ prepareCount = 0
    /\ crashed = FALSE
    /\ lastCall = NoCall
    /\ written = {}
    /\ lastFlagWriter = "none"

-----------------------------------------------------------------------------
(* The shader state bridge.  Each operation gives the next value of every   *)
(* variable but the position of the running routine (pc, scriptPos,         *)
(* prepareCount), which the step that makes the call gives.                 *)

\* cos(glm::radians(degrees)) in thousandths, for the angles the class is
\* called with (degrees are in thousandths: 90.0f is 90000)
Cos(degrees) ==
    CASE degrees = 0 -> 1000
      [] degrees = 90000 -> 0
      [] degrees = 180000 -> -1000
      [] degrees = -90000 -> 0
      [] degrees = 5000 -> 996
      [] degrees = 15000 -> 966
      [] degrees = 20000 -> 940

\* sin(glm::radians(degrees)) in thousandths
Sin(degrees) ==
    CASE degrees = 0 -> 0
      [] degrees = 90000 -> 1000
      [] degrees = 180000 -> 0
      [] degrees = -90000 -> -1000
      [] degrees = 5000 -> 87
      [] degrees = 15000 -> 259
      [] degrees = 20000 -> 342

\* a 4x4 matrix is the tuple of its rows; m[r][c] multiplies component c of
\* the vector it is applied to
Mat4(r1, r2, r3, r4) == <<r1, r2, r3, r4>>

\* glm's operator* on mat4
MatMul(a, b) ==
    LET Entry(r, c) ==
            (a[r][1] * b[1][c] + a[r][2] * b[2][c] + a[r][3] * b[3][c]
             + a[r][4] * b[4][c]) \div 1000
        Row(r) == <<Entry(r, 1), Entry(r, 2), Entry(r, 3), Entry(r, 4)>>
    IN <<Row(1), Row(2), Row(3), Row(4)>>

\* glm::scale(v)
ScaleMatrix(v) ==
    Mat4(<<v[1], 0, 0, 0>>, <<0, v[2], 0, 0>>, <<0, 0, v[3], 0>>,
         <<0, 0, 0, 1000>>)

\* glm::rotate(radians(degrees), vec3(1, 0, 0))
RotateXMatrix(degrees) ==
    Mat4(<<1000, 0, 0, 0>>,
         <<0, Cos(degrees), -Sin(degrees), 0>>,
         <<0, Sin(degrees), Cos(degrees), 0>>,
         <<0, 0, 0, 1000>>)

\* glm::rotate(radians(degrees), vec3(0, 1, 0))
RotateYMatrix(degrees) ==
    Mat4(<<Cos(degrees), 0, Sin(degrees), 0>>,
         <<0, 1000, 0, 0>>,
         <<-Sin(degrees), 0, Cos(degrees), 0>>,
         <<0, 0, 0, 1000>>)

\* glm::rotate(radians(degrees), vec3(0, 0, 1))
RotateZMatrix(degrees) ==
    Mat4(<<Cos(degrees), -Sin(degrees), 0, 0>>,
         <<Sin(degrees), Cos(degrees), 0, 0>>,
         <<0, 0, 1000, 0>>,
         <<0, 0, 0, 1000>>)

\* glm::translate(v)
TranslateMatrix(v) ==
    Mat4(<<1000, 0, 0, v[1]>>, <<0, 1000, 0, v[2]>>, <<0, 0, 1000, v[3]>>,
         <<0, 0, 0, 1000>>)

\* a product taken in the opposite rotation order
ModelViewXYZ(scaleXYZ, XrotationDegrees, YrotationDegrees, ZrotationDegrees, positionXYZ) ==
    MatMul(MatMul(MatMul(MatMul(TranslateMatrix(positionXYZ),
                                RotateXMatrix(XrotationDegrees)),
                         RotateYMatrix(YrotationDegrees)),
                  RotateZMatrix(ZrotationDegrees)),
           ScaleMatrix(scaleXYZ))

\* modelView = translation * rotationZ * rotationY * rotationX * scale
ModelView(scaleXYZ, XrotationDegrees, YrotationDegrees, ZrotationDegrees, positionXYZ) ==
    MatMul(MatMul(MatMul(MatMul(TranslateMatrix(positionXYZ),
                                RotateZMatrix(ZrotationDegrees)),
                         RotateYMatrix(YrotationDegrees)),
                  RotateXMatrix(XrotationDegrees)),
           ScaleMatrix(scaleXYZ))

SetTransformations(scaleXYZ, XrotationDegrees, YrotationDegrees, ZrotationDegrees, positionXYZ) ==
    /\ IF m_pShaderManager # "NULL"
       THEN /\ uniforms' = [uniforms EXCEPT !.model =
                   ModelView(scaleXYZ, XrotationDegrees, YrotationDegrees,
                             ZrotationDegrees, positionXYZ)]
            /\ written' = {g_ModelName}
       ELSE /\ uniforms' = uniforms
            /\ written' = {}
    /\ lastCall' = [Call("SetTransformations", "", "", "void", 0, 0)
                       EXCEPT !.xf = [scale |-> scaleXYZ,
                                      rot |-> <<XrotationDegrees,
                                                YrotationDegrees,
                                                ZrotationDegrees>>,
                                      pos |-> positionXYZ]]
    /\ UNCHANGED <<registries, glState, liveImages, meshLoads, crashed,
                   lastFlagWriter>>

SetShaderColor(redColorValue, greenColorValue, blueColorValue, alphaValue) ==
    /\ IF m_pShaderManager # "NULL"
       THEN /\ uniforms' = [uniforms EXCEPT
                   !.bUseTexture = 0,
                   !.objectColor = <<redColorValue, greenColorValue,
                                     blueColorValue, alphaValue>>]
            /\ written' = {g_UseTextureName, g_ColorValueName}
       ELSE /\ uniforms' = uniforms
            /\ written' = {}
    /\ lastCall' = Call("SetShaderColor", "", "", "void", 0, 0)
    /\ lastFlagWriter' = "SetShaderColor"
    /\ UNCHANGED <<registries, glState, liveImages, meshLoads, crashed>>

\* sampling is switched on only when the tag resolves
SetShaderTextureIfFound(textureTag) ==
    /\ IF m_pShaderManager # "NULL"
       THEN /\ uniforms' = [uniforms EXCEPT
                   !.bUseTexture = IF FindTextureSlot(textureTag) # NotFound
                                   THEN 1 ELSE uniforms.bUseTexture,
                   !.objectTexture = FindTextureSlot(textureTag)]
            /\ written' = {g_UseTextureName, g_TextureValueName}
       ELSE /\ uniforms' = uniforms
            /\ written' = {}
    /\ lastCall' = Call("SetShaderTexture", textureTag, "", "void",
                        FindTextureSlot(textureTag), 0)
    /\ lastFlagWriter' = "SetShaderTexture"
    /\ UNCHANGED <<registries, glState, liveImages, meshLoads, crashed>>

SetShaderTexture(textureTag) ==
    /\ IF m_pShaderManager # "NULL"
       THEN /\ uniforms' = [uniforms EXCEPT
                   !.bUseTexture = 1,
                   !.objectTexture = FindTextureSlot(textureTag)]
            /\ written' = {g_UseTextureName, g_TextureValueName}
       ELSE /\ uniforms' = uniforms
            /\ written' = {}
    /\ lastCall' = Call("SetShaderTexture", textureTag, "", "void",
                        FindTextureSlot(textureTag), 0)
    /\ lastFlagWriter' = "SetShaderTexture"
    /\ UNCHANGED <<registries, glState, liveImages, meshLoads, crashed>>

SetTextureUVScale(u, v) ==
    /\ IF m_pShaderManager # "NULL"
       THEN /\ uniforms' = [uniforms EXCEPT !.UVscale = <<u, v>>]
            /\ written' = {"UVscale"}
       ELSE /\ uniforms' = uniforms
            /\ written' = {}
    /\ lastCall' = Call("SetTextureUVScale", "", "", "void", 0, 0)
    /\ UNCHANGED <<registries, glState, liveImages, meshLoads, crashed,
                   lastFlagWriter>>

\* the uniforms are written whatever the registry holds
SetShaderMaterialAlways(materialTag) ==
    /\ lastCall' = Call("SetShaderMaterial", materialTag, "", "void", 0,
                        Len(m_objectMaterials))
    /\ \E material \in UninitMaterials :
          LET found == FindMaterial(materialTag, material) IN
          /\ uniforms' = [uniforms EXCEPT
                 !.material_diffuseColor = found.material.diffuseColor,
                 !.material_specularColor = found.material.specularColor,
                 !.material_shininess = found.material.shininess]
          /\ written' = {"material.diffuseColor", "material.specularColor",
                         "material.shininess"}
    /\ UNCHANGED <<registries, glState, liveImages, meshLoads, lastFlagWriter,
                   crashed>>

\* lastCall.aux is the material count the call found; its local "material"
\* starts with an indeterminate value.  m_pShaderManager is dereferenced
\* without a NULL test: with a NULL pointer the call faults.
SetShaderMaterial(materialTag) ==
    /\ lastCall' = Call("SetShaderMaterial", materialTag, "", "void", 0,
                        Len(m_objectMaterials))
    /\ IF Len(m_objectMaterials) > 0
       THEN \E material \in UninitMaterials :
              LET found == FindMaterial(materialTag, material) IN
              IF found.ret = TRUE
              THEN IF m_pShaderManager # "NULL"
                   THEN /\ uniforms' = [uniforms EXCEPT
                               !.material_diffuseColor =
                                   found.material.diffuseColor,
                               !.material_specularColor =
                                   found.material.specularColor,
                               !.material_shininess =
                                   found.material.shininess]
                        /\ written' = {"material.diffuseColor",
                                       "material.specularColor",
                                       "material.shininess"}
                        /\ crashed' = crashed
                   ELSE /\ crashed' = TRUE
                        /\ uniforms' = uniforms
                        /\ written' = {}
              ELSE /\ uniforms' = uniforms
                   /\ written' = {}
                   /\ crashed' = crashed
       ELSE /\ uniforms' = uniforms
            /\ written' = {}
            /\ crashed' = crashed
    /\ UNCHANGED <<registries, glState, liveImages, meshLoads, lastFlagWriter>>

\* m_basicMeshes->Draw<mesh>Mesh(): the mesh provider draws with the uniforms
\* as they are
DrawMesh(mesh) ==
    /\ lastCall' = Call("Draw", mesh, "", "void", 0, 0)
    /\ written' = {}
    /\ UNCHANGED <<registries, glState, liveImages, meshLoads, crashed,
                   uniforms, lastFlagWriter>>

-----------------------------------------------------------------------------
(* The texture registry *)

RegisterTextureNoCount(textureID, tag) ==
    /\ m_textureIDs' = [m_textureIDs EXCEPT ![m_loadedTextures] =
                            [tag |-> tag, ID |-> textureID]]
    /\ m_loadedTextures' = m_loadedTextures

\* lines 128-131: the entry is written at m_textureIDs[m_loadedTextures] and
\* the count goes up by one; no test keeps the index below the array's length
RegisterTexture(textureID, tag) ==
    /\ m_textureIDs' = [m_textureIDs EXCEPT ![m_loadedTextures] =
                            [tag |-> tag, ID |-> textureID]]
    /\ m_loadedTextures' = m_loadedTextures + 1

\* "if (colorChannels == 3)"
IsRGB(colorChannels) == colorChannels = 3

IsRGBAElse(colorChannels) == TRUE

\* "else if (colorChannels == 4)"
IsRGBA(colorChannels) == colorChannels = 4

\* lastCall: ret is "true" or "false" as returned ("crash": the call did not
\* return), val the texture name generated (0: none), aux the index written
\* (-1: none)
CreateGLTexture(filename, tag) ==
    LET colorChannels == imageChannels[filename]
        textureID == glNextName
    IN
    /\ UNCHANGED <<m_objectMaterials, uniforms, meshLoads, lastFlagWriter,
                   glActiveUnit>>
    /\ written' = {}
    /\ IF colorChannels # 0
       THEN \* the image was read: glGenTextures, glBindTexture
            /\ glNextName' = glNextName + 1
            /\ IF IsRGB(colorChannels) \/ IsRGBA(colorChannels)
               THEN /\ glTexFormat' = Append(glTexFormat,
                           IF IsRGB(colorChannels) THEN "GL_RGB8"
                           ELSE "GL_RGBA8")
                    \* stbi_image_free, glBindTexture(GL_TEXTURE_2D, 0)
                    /\ liveImages' = liveImages
                    /\ glUnitTex2D' = [glUnitTex2D EXCEPT ![glActiveUnit] = 0]
                    /\ IF m_loadedTextures < TextureCapacity
                       THEN /\ RegisterTexture(textureID, tag)
                            /\ crashed' = crashed
                            /\ lastCall' = Call("CreateGLTexture", tag,
                                   filename, "true", textureID,
                                   m_loadedTextures)
                       ELSE \* a write past the end of m_textureIDs: it
                            \* faults, or it lands in the memory that follows
                            \/ /\ crashed' = TRUE
                               /\ UNCHANGED <<m_textureIDs, m_loadedTextures>>
                               /\ lastCall' = Call("CreateGLTexture", tag,
                                      filename, "crash", textureID,
                                      m_loadedTextures)
                            \/ /\ RegisterTexture(textureID, tag)
                               /\ crashed' = crashed
                               /\ lastCall' = Call("CreateGLTexture", tag,
                                      filename, "true", textureID,
                                      m_loadedTextures)
               ELSE \* "Not implemented to handle image with N channels"
                    /\ glTexFormat' = Append(glTexFormat, "none")
                    /\ liveImages' = liveImages + 1
                    /\ glUnitTex2D' = [glUnitTex2D EXCEPT
                                          ![glActiveUnit] = textureID]
                    /\ UNCHANGED <<m_textureIDs, m_loadedTextures, crashed>>
                    /\ lastCall' = Call("CreateGLTexture", tag, filename,
                                        "false", textureID, -1)
       ELSE \* "Could not load image"
            /\ UNCHANGED <<m_textureIDs, m_loadedTextures, crashed, glNextName,
                           glUnitTex2D, glTexFormat, liveImages>>
            /\ lastCall' = Call("CreateGLTexture", tag, filename, "false", 0,
                                -1)

\* the for loop of BindGLTextures from index i: the unit bindings it leaves
RECURSIVE BindLoopUnits(_, _)
BindLoopUnits(i, units) ==
    IF i < m_loadedTextures
    THEN BindLoopUnits(i + 1, [units EXCEPT ![i] = m_textureIDs[i].ID])
    ELSE units

\* a loop that starts at index 1
BindGLTexturesFromOne ==
    /\ glUnitTex2D' = BindLoopUnits(1, glUnitTex2D)
    /\ glActiveUnit' = IF m_loadedTextures > 1 THEN m_loadedTextures - 1
                       ELSE glActiveUnit
    /\ lastCall' = Call("BindGLTextures", "", "", "void", 0, 0)
    /\ written' = {}
    /\ UNCHANGED <<registries, uniforms, glNextName, glTexFormat, liveImages,
                   meshLoads, crashed, lastFlagWriter>>

BindGLTextures ==
    /\ glUnitTex2D' = BindLoopUnits(0, glUnitTex2D)
    /\ glActiveUnit' = IF m_loadedTextures > 0 THEN m_loadedTextures - 1
                       ELSE glActiveUnit
    /\ lastCall' = Call("BindGLTextures", "", "", "void", 0, 0)
    /\ written' = {}
    /\ UNCHANGED <<registries, uniforms, glNextName, glTexFormat, liveImages,
                   meshLoads, crashed, lastFlagWriter>>

-----------------------------------------------------------------------------
(* The material registry, the lights and the meshes *)

DefineObjectMaterials ==
    /\ m_objectMaterials' = m_objectMaterials \o SceneMaterials
    /\ lastCall' = Call("DefineObjectMaterials", "", "", "void", 0, 0)
    /\ written' = {}
    /\ UNCHANGED <<m_loadedTextures, m_textureIDs, uniforms, glState,
                   liveImages, meshLoads, crashed, lastFlagWriter>>

LightUniformNames ==
    {g_UseLightingName,
     "directionalLight.direction", "directionalLight.ambient",
     "directionalLight.diffuse", "directionalLight.specular",
     "directionalLight.bActive",
     "pointLights[0].position", "pointLights[0].ambient",
     "pointLights[0].diffuse", "pointLights[0].specular",
     "pointLights[0].bActive"}

\* m_pShaderManager is dereferenced without a NULL test
SetupSceneLights ==
    /\ lastCall' = Call("SetupSceneLights", "", "", "void", 0, 0)
    /\ IF m_pShaderManager # "NULL"
       THEN /\ uniforms' = [uniforms EXCEPT !.bUseLighting = 1,
                                            !.lights = "sun+cabin"]
            /\ written' = LightUniformNames
            /\ crashed' = crashed
       ELSE /\ crashed' = TRUE
            /\ uniforms' = uniforms
            /\ written' = {}
    /\ UNCHANGED <<registries, glState, liveImages, meshLoads, lastFlagWriter>>

\* LoadBoxMesh, LoadPlaneMesh, LoadCylinderMesh, LoadTorusMesh
LoadMeshes ==
    /\ meshLoads' = meshLoads + 1
    /\ lastCall' = Call("LoadMeshes", "", "", "void", 0, 0)
    /\ written' = {}
    /\ UNCHANGED <<registries, uniforms, glState, liveImages, crashed,
                   lastFlagWriter>>

-----------------------------------------------------------------------------
(* The scene script *)

Xf(scaleXYZ, XrotationDegrees, positionXYZ) ==
    [op |-> "SetTransformations", scale |-> scaleXYZ,
     rx |-> XrotationDegrees, ry |-> 0, rz |-> 0, pos |-> positionXYZ]

Mat(tag) == [op |-> "SetShaderMaterial", tag |-> tag]

Tex(tag) == [op |-> "SetShaderTexture", tag |-> tag]

Col(r, g, b, a) == [op |-> "SetShaderColor", rgba |-> <<r, g, b, a>>]

UV(u, v) == [op |-> "SetTextureUVScale", u |-> u, v |-> v]

Draw(mesh) == [op |-> "Draw", mesh |-> mesh]

\* the calls of RenderScene, in order
RenderScript ==
    << \* ground plane
       Xf(<<20000, 1000, 10000>>, 0, <<0, 0, 0>>),
       Mat("dashmat"), Tex("ground"), Draw("Plane"),
       \* main dashboard body
       Xf(<<2800, 120, 600>>, 20000, <<0, 800, -1500>>),
       Mat("dashmat"), Tex("dash"), UV(3000, 1000), Draw("Cylinder"),
       \* dashboard top surface
       Xf(<<2800, 20, 200>>, 5000, <<0, 950, -1400>>),
       Mat("metal"), Col(150, 150, 150, 1000), Draw("Box"),
       \* screen frame
       Xf(<<490, 650, 40>>, 5000, <<0, 900, -850>>),
       Mat("plastic"), Col(50, 50, 50, 1000), Draw("Box"),
       \* display surface
       Xf(<<470, 630, 20>>, 5000, <<0, 900, -830>>),
       Mat("glassscreen"), Tex("screen"), UV(1000, 1000), Draw("Box"),
       \* steering wheel ring
       Xf(<<260, 260, 50>>, 20000, <<-650, 850, -700>>),
       Mat("plastic"), Tex("wheel"), Draw("Torus"),
       \* steering column
       Xf(<<40, 410, 40>>, -90000, <<-650, 850, -700>>),
       Mat("matteblack"), Draw("Cylinder"),
       \* steering wheel center
       Xf(<<120, 120, 50>>, 20000, <<-650, 850, -700>>),
       Mat("plastic"), Col(200, 200, 200, 1000), Draw("Box"),
       \* seat base
       Xf(<<500, 100, 500>>, 0, <<-700, 100, 0>>),
       Mat("dashmat"), Tex("dash"), Draw("Box"),
       \* seat back
       Xf(<<500, 700, 100>>, 15000, <<-699, 500, 350>>),
       Mat("dashmat"), Tex("dash"), Draw("Box"),
       \* center console
       Xf(<<300, 250, 1800>>, 0, <<0, 200, -200>>),
       Mat("plastic"), Col(100, 100, 100, 1000), Draw("Box"),
       \* cup holders
       Xf(<<200, 100, 200>>, 0, <<0, 300, 400>>),
       Mat("matteblack"), Draw("Box") >>

-----------------------------------------------------------------------------
(* PrepareScene, call by call *)

Running == crashed = FALSE

PrepareSceneMaterials ==
    /\ Running
    /\ pc = "idle"
    /\ prepareCount < MaxPrepare
    /\ DefineObjectMaterials
    /\ pc' = "LoadSceneTextures"
    /\ scriptPos' = 1
    /\ prepareCount' = prepareCount + 1
    /\ UNCHANGED <<m_pShaderManager, imageChannels>>

LoadSceneTexturesCreate ==
    /\ Running
    /\ pc = "LoadSceneTextures"
    /\ scriptPos <= Len(SceneTextures)
    /\ CreateGLTexture(SceneTextures[scriptPos].file, SceneTextures[scriptPos].tag)
    /\ scriptPos' = scriptPos + 1
    /\ UNCHANGED <<pc, prepareCount, m_pShaderManager, imageChannels>>

LoadSceneTexturesBind ==
    /\ Running
    /\ pc = "LoadSceneTextures"
    /\ scriptPos = Len(SceneTextures) + 1
    /\ BindGLTextures
    /\ pc' = "SetupSceneLights"
    /\ scriptPos' = 0
    /\ UNCHANGED <<prepareCount, m_pShaderManager, imageChannels>>

PrepareSceneLights ==
    /\ Running
    /\ pc = "SetupSceneLights"
    /\ SetupSceneLights
    /\ pc' = "LoadMeshes"
    /\ UNCHANGED <<scriptPos, prepareCount, m_pShaderManager, imageChannels>>

PrepareSceneMeshes ==
    /\ Running
    /\ pc = "LoadMeshes"
    /\ LoadMeshes
    /\ pc' = "idle"
    /\ UNCHANGED <<scriptPos, prepareCount, m_pShaderManager, imageChannels>>

-----------------------------------------------------------------------------
(* RenderScene, call by call *)

\* a RenderScene that defines the materials again on every call
RenderSceneEnterDefining ==
    /\ m_objectMaterials' = m_objectMaterials \o SceneMaterials
    /\ lastCall' = Call("RenderScene", "", "", "void", 0, 0)
    /\ written' = {}
    /\ UNCHANGED <<m_loadedTextures, m_textureIDs, uniforms, glState,
                   liveImages, meshLoads, crashed, lastFlagWriter>>

\* entry of RenderScene: its locals are declared, nothing of the object changes
RenderSceneEnter ==
    /\ lastCall' = Call("RenderScene", "", "", "void", 0, 0)
    /\ written' = {}
    /\ UNCHANGED <<registries, uniforms, glState, liveImages, meshLoads,
                   crashed, lastFlagWriter>>

RenderSceneBegin ==
    /\ Running
    /\ pc = "idle"
    /\ RenderSceneEnter
    /\ pc' = "RenderScene"
    /\ scriptPos' = 1
    /\ UNCHANGED <<prepareCount, m_pShaderManager, imageChannels>>

\* the routine moves to its next call, or returns after its last
RenderAdvance ==
    /\ IF scriptPos < Len(RenderScript)
       THEN pc' = pc /\ scriptPos' = scriptPos + 1
       ELSE pc' = "idle" /\ scriptPos' = 0
    /\ UNCHANGED <<prepareCount, m_pShaderManager, imageChannels>>

AtRenderCall(op) ==
    /\ Running
    /\ pc = "RenderScene"
    /\ RenderScript[scriptPos].op = op

RenderSetTransformations ==
    /\ AtRenderCall("SetTransformations")
    /\ LET c == RenderScript[scriptPos] IN
         SetTransformations(c.scale, c.rx, c.ry, c.rz, c.pos)
    /\ RenderAdvance

RenderSetShaderMaterial ==
    /\ AtRenderCall("SetShaderMaterial")
    /\ SetShaderMaterial(RenderScript[scriptPos].tag)
    /\ RenderAdvance

RenderSetShaderTexture ==
    /\ AtRenderCall("SetShaderTexture")
    /\ SetShaderTexture(RenderScript[scriptPos].tag)
    /\ RenderAdvance

RenderSetShaderColor ==
    /\ AtRenderCall("SetShaderColor")
    /\ LET c == RenderScript[scriptPos].rgba IN
         SetShaderColor(c[1], c[2], c[3], c[4])
    /\ RenderAdvance

RenderSetTextureUVScale ==
    /\ AtRenderCall("SetTextureUVScale")
    /\ SetTextureUVScale(RenderScript[scriptPos].u, RenderScript[scriptPos].v)
    /\ RenderAdvance

RenderDraw ==
    /\ AtRenderCall("Draw")
    /\ DrawMesh(RenderScript[scriptPos].mesh)
    /\ RenderAdvance

-----------------------------------------------------------------------------
(* The lookups, called between the scene routines *)

Query(call) ==
    /\ Running
    /\ pc = "idle"
    /\ lastCall' = call
    /\ written' = {}
    /\ UNCHANGED <<registries, uniforms, glState, liveImages, meshLoads,
                   crashed, lastFlagWriter, pc, scriptPos, prepareCount,
                   m_pShaderManager, imageChannels>>

CallFindTextureID ==
    \E tag \in LookupTags :
        Query(Call("FindTextureID", tag, "", "void", FindTextureID(tag), 0))

CallFindTextureSlot ==
    \E tag \in LookupTags :
        Query(Call("FindTextureSlot", tag, "", "void", FindTextureSlot(tag), 0))

\* lastCall.val is the shininess of the output material after the call
CallFindMaterial ==
    \E tag \in MaterialLookupTags, material \in UninitMaterials :
        LET found == FindMaterial(tag, material) IN
        Query(Call("FindMaterial", tag, "",
                   IF found.ret THEN "true" ELSE "false",
                   found.material.shininess, 0))

-----------------------------------------------------------------------------

Next ==
    \/ PrepareSceneMaterials
    \/ LoadSceneTexturesCreate
    \/ LoadSceneTexturesBind
    \/ PrepareSceneLights
    \/ PrepareSceneMeshes
    \/ RenderSceneBegin
    \/ RenderSetTransformations
    \/ RenderSetShaderMaterial
    \/ RenderSetShaderTexture
    \/ RenderSetShaderColor
    \/ RenderSetTextureUVScale
    \/ RenderDraw
    \/ CallFindTextureID
    \/ CallFindTextureSlot
    \/ CallFindMaterial

Spec == Init /\ [][Next]_vars

-----------------------------------------------------------------------------
(* SetTransformations on its own: one call on the constructed object, with  *)
(* scales and positions that are whole numbers and rotations by multiples   *)
(* of 90 degrees                                                            *)

TransformScales == {1000, 2000}

TransformAngles == {0, 90000, 180000, -90000}

TransformPositions == {0, 1000, -2000}

InitTransform ==
    /\ Init
    /\ imageChannels = [f \in Files |-> 3]

CallSetTransformations ==
    /\ Running
    /\ pc = "idle"
    /\ \E sx, sy, sz \in TransformScales,
          rx, ry, rz \in TransformAngles,
          px, py, pz \in TransformPositions :
            SetTransformations(<<sx, sy, sz>>, rx, ry, rz, <<px, py, pz>>)
    /\ pc' = "returned"
    /\ UNCHANGED <<scriptPos, prepareCount, m_pShaderManager, imageChannels>>

NextTransform == CallSetTransformations

SpecTransform == InitTransform /\ [][NextTransform]_vars

-----------------------------------------------------------------------------
(* Properties of the texture registry *)

SetMin(S) == CHOOSE x \in S : \A y \in S : x <= y

\* the indices below the entry count whose tag is tag
TextureMatches(tag) ==
    { i \in 0..(m_loadedTextures - 1) : m_textureIDs[i].tag = tag }

LoadReturned(ret) == lastCall.op = "CreateGLTexture" /\ lastCall.ret = ret

\* C1 as stated: after a load of tag t that returned success, FindTextureID(t)
\* is the handle that load created and FindTextureSlot(t) is the index of the
\* entry it appended.
C1_LoadThenFindAlways ==
    LoadReturned("true") =>
        /\ FindTextureID(lastCall.tag) = lastCall.val
        /\ FindTextureSlot(lastCall.tag) = lastCall.aux

\* C1 amended: the successful load appended the entry [t, handle] at the old
\* entry count; the lookups of t return that entry when no earlier entry has
\* tag t, and the earliest entry with tag t otherwise.
C1_LoadThenFindFirst ==
    LoadReturned("true") =>
        LET t == lastCall.tag
            earlier == { i \in TextureMatches(t) : i < lastCall.aux }
        IN
        /\ m_loadedTextures = lastCall.aux + 1
        /\ m_textureIDs[lastCall.aux] = [tag |-> t, ID |-> lastCall.val]
        /\ earlier = {} =>
              /\ FindTextureID(t) = lastCall.val
              /\ FindTextureSlot(t) = lastCall.aux
        /\ earlier # {} =>
              /\ FindTextureSlot(t) = SetMin(earlier)
              /\ FindTextureID(t) = m_textureIDs[SetMin(earlier)].ID

\* a 4-channel image was loaded under a fresh tag into a non-empty registry
C1_Witness ==
    /\ LoadReturned("true")
    /\ imageChannels[lastCall.file] = 4
    /\ lastCall.aux > 0
    /\ FindTextureSlot(lastCall.tag) = lastCall.aux
    /\ FindTextureID(lastCall.tag) = lastCall.val

\* C2: a load whose image does not decode, or decodes to a channel count other
\* than 3 or 4, returns false and leaves the entry count and every entry as
\* they were.
C2_FailedLoadKeepsRegistry ==
    [][ (/\ pc = "LoadSceneTextures"
         /\ lastCall'.op = "CreateGLTexture"
         /\ \/ lastCall'.ret = "false"
            \/ imageChannels[lastCall'.file] \notin {3, 4})
        => /\ lastCall'.ret = "false"
           /\ m_loadedTextures' = m_loadedTextures
           /\ m_textureIDs' = m_textureIDs ]_vars

\* a load of a 1-channel image failed on a registry that holds entries
C2_Witness ==
    /\ LoadReturned("false")
    /\ imageChannels[lastCall.file] = 1
    /\ m_loadedTextures > 0

\* C3: for every tag, FindTextureSlot is the smallest index below the entry
\* count whose tag matches and FindTextureID the handle stored there; with no
\* match both are -1.
C3_FirstMatchOrNotFound ==
    \A tag \in LookupTags :
        IF TextureMatches(tag) = {}
        THEN FindTextureSlot(tag) = -1 /\ FindTextureID(tag) = -1
        ELSE /\ FindTextureSlot(tag) = SetMin(TextureMatches(tag))
             /\ FindTextureID(tag) = m_textureIDs[SetMin(TextureMatches(tag))].ID

\* a tag is registered twice, and a lookup of an unregistered tag was made
C3_Witness ==
    /\ lastCall.op = "FindTextureSlot"
    /\ lastCall.tag = "nonexistent"
    /\ lastCall.val = -1
    /\ \E tag \in LookupTags : Cardinality(TextureMatches(tag)) >= 2

\* C4 as stated: the entry count never exceeds the 16 slots and no load writes
\* an entry at index 16 or more.
C4_WithinCapacity ==
    /\ m_loadedTextures <= TextureCapacity
    /\ lastCall.op = "CreateGLTexture" => lastCall.aux < TextureCapacity

-----------------------------------------------------------------------------
(* Properties of the shader state bridge *)

MaterialUniformNames ==
    {"material.diffuseColor", "material.specularColor", "material.shininess"}

\* C5: with a shader bound, bUseTexture is false right after SetShaderColor and
\* true right after SetShaderTexture (resolved tag or not), and at every draw
\* call it is the value written by whichever of the two ran last.
C5_UseTextureFlag ==
    m_pShaderManager = "bound" =>
        /\ lastCall.op = "SetShaderColor" => uniforms.bUseTexture = 0
        /\ lastCall.op = "SetShaderTexture" => uniforms.bUseTexture = 1
        /\ (lastCall.op = "Draw" /\ lastFlagWriter # "none") =>
              uniforms.bUseTexture =
                  (IF lastFlagWriter = "SetShaderTexture" THEN 1 ELSE 0)

\* SetShaderTexture ran with an unresolved tag after a SetShaderColor had
\* switched sampling off
C5_Witness ==
    /\ m_pShaderManager = "bound"
    /\ lastCall.op = "SetShaderTexture"
    /\ lastCall.val = NotFound
    /\ uniforms.objectColor # <<0, 0, 0, 0>>
    /\ uniforms.bUseTexture = 1

\* the step is a SetShaderMaterial call of RenderScene
AtSetShaderMaterial ==
    /\ pc = "RenderScene"
    /\ RenderScript[scriptPos].op = "SetShaderMaterial"

\* C6: with an empty material registry a SetShaderMaterial call writes no
\* uniform and leaves the uniforms and both registries as they were.
C6_EmptyRegistryNoOp ==
    [][ (AtSetShaderMaterial /\ Len(m_objectMaterials) = 0)
        => /\ written' = {}
           /\ uniforms' = uniforms
           /\ UNCHANGED registries ]_vars

\* SetShaderMaterial ran with a shader bound and no material defined
C6_Witness ==
    /\ lastCall.op = "SetShaderMaterial"
    /\ lastCall.aux = 0
    /\ m_pShaderManager = "bound"
    /\ written = {}

\* the (0-based) index of the first material with the tag
FirstMaterial(tag) ==
    SetMin({ i \in 1..Len(m_objectMaterials) : m_objectMaterials[i].tag = tag })

\* C7: with a non-empty material registry FindMaterial returns true for every
\* tag; with no match the output material is as passed in, with a match it
\* holds the first matching entry's values; and a SetShaderMaterial call on a
\* non-empty registry writes the three material uniforms, whatever the tag.
C7_FindMaterialAlwaysFound ==
    /\ Len(m_objectMaterials) > 0 =>
          \A tag \in MaterialLookupTags, material \in UninitMaterials :
              LET found == FindMaterial(tag, material) IN
              /\ found.ret = TRUE
              /\ ~MaterialFound(tag) => found.material = material
              /\ MaterialFound(tag) =>
                    LET m == m_objectMaterials[FirstMaterial(tag)] IN
                    /\ found.material.diffuseColor = m.diffuseColor
                    /\ found.material.specularColor = m.specularColor
                    /\ found.material.shininess = m.shininess
    /\ (lastCall.op = "SetShaderMaterial" /\ lastCall.aux > 0) =>
          written = MaterialUniformNames

\* SetShaderMaterial("metal") ran on the defined materials, none of which is
\* tagged "metal", and wrote the uniforms
C7_Witness ==
    /\ lastCall.op = "SetShaderMaterial"
    /\ lastCall.tag = "metal"
    /\ lastCall.aux > 0
    /\ ~MaterialFound("metal")
    /\ written = MaterialUniformNames

\* BindGLTextures has run and no load has been made since
TexturesBound ==
    \/ lastCall.op = "BindGLTextures"
    \/ prepareCount > 0 /\ pc \in {"SetupSceneLights", "LoadMeshes", "idle",
                                   "RenderScene"}

\* C8: after BindGLTextures, unit i has the handle of entry i bound for every
\* i below the entry count; so for every registered tag the texture bound at
\* unit FindTextureSlot(tag) is FindTextureID(tag), and that unit is what
\* SetShaderTexture(tag) writes to objectTexture.
C8_UnitsMatchSlots ==
    TexturesBound =>
        /\ \A i \in 0..(m_loadedTextures - 1) :
              glUnitTex2D[i] = m_textureIDs[i].ID
        /\ \A tag \in LookupTags :
              FindTextureSlot(tag) # NotFound =>
                  glUnitTex2D[FindTextureSlot(tag)] = FindTextureID(tag)
        /\ (/\ lastCall.op = "SetShaderTexture"
            /\ m_pShaderManager = "bound"
            /\ lastCall.val # NotFound) =>
              /\ uniforms.objectTexture = FindTextureSlot(lastCall.tag)
              /\ glUnitTex2D[uniforms.objectTexture] =
                     FindTextureID(lastCall.tag)

\* SetShaderTexture resolved a tag that is registered twice, after the
\* textures were bound
C8_Witness ==
    /\ TexturesBound
    /\ lastCall.op = "SetShaderTexture"
    /\ m_pShaderManager = "bound"
    /\ lastCall.val # NotFound
    /\ Cardinality(TextureMatches(lastCall.tag)) >= 2
    /\ glUnitTex2D[uniforms.objectTexture] = FindTextureID(lastCall.tag)

\* C9 as stated: every load that decodes an image and returns allocates
\* exactly one texture object, leaves no texture bound to GL_TEXTURE_2D and
\* leaves no decoded image buffer behind.
C9_LoadCleansUp ==
    [][ (/\ pc = "LoadSceneTextures"
         /\ lastCall'.op = "CreateGLTexture"
         /\ imageChannels[lastCall'.file] # 0
         /\ lastCall'.ret # "crash")
        => /\ glNextName' = glNextName + 1
           /\ glUnitTex2D'[glActiveUnit'] = 0
           /\ liveImages' = liveImages ]_vars

\* the step is one of PrepareScene's
PrepareStep ==
    \/ pc \in {"LoadSceneTextures", "SetupSceneLights", "LoadMeshes"}
    \/ pc' = "LoadSceneTextures"

\* C10: only PrepareScene changes the registries: every step of RenderScene
\* (its SetTransformations, SetShaderColor, SetShaderTexture,
\* SetTextureUVScale, SetShaderMaterial and draw calls) and every lookup
\* leaves the entry count, the entries and the material list as they were.
C10_OnlyPrepareMutates ==
    [][ ~PrepareStep => UNCHANGED registries ]_vars

\* a RenderScene has run to its end after a PrepareScene that loaded textures
C10_Witness ==
    /\ pc = "idle"
    /\ lastCall.op = "Draw"
    /\ m_loadedTextures > 0
    /\ Len(m_objectMaterials) > 0

-----------------------------------------------------------------------------
(* Properties of SetTransformations *)

\* a quarter-turn rotation of a point about the x, the y and the z axis
TurnX(v, degrees) ==
    CASE degrees = 0 -> v
      [] degrees = 90000 -> <<v[1], -v[3], v[2]>>
      [] degrees = 180000 -> <<v[1], -v[2], -v[3]>>
      [] degrees = -90000 -> <<v[1], v[3], -v[2]>>

TurnY(v, degrees) ==
    CASE degrees = 0 -> v
      [] degrees = 90000 -> <<v[3], v[2], -v[1]>>
      [] degrees = 180000 -> <<-v[1], v[2], -v[3]>>
      [] degrees = -90000 -> <<-v[3], v[2], v[1]>>

TurnZ(v, degrees) ==
    CASE degrees = 0 -> v
      [] degrees = 90000 -> <<-v[2], v[1], v[3]>>
      [] degrees = 180000 -> <<-v[1], -v[2], v[3]>>
      [] degrees = -90000 -> <<v[2], -v[1], v[3]>>

RightAngles == {0, 90000, 180000, -90000}

\* where a local point goes: scaled, turned about x, then y, then z, then moved
Placed(xf, v) ==
    LET scaled == <<(xf.scale[1] * v[1]) \div 1000,
                    (xf.scale[2] * v[2]) \div 1000,
                    (xf.scale[3] * v[3]) \div 1000>>
        turned == TurnZ(TurnY(TurnX(scaled, xf.rot[1]), xf.rot[2]), xf.rot[3])
    IN <<xf.pos[1] + turned[1], xf.pos[2] + turned[2], xf.pos[3] + turned[3]>>

\* the matrix applied to the point (v, 1)
Transformed(m, v) ==
    [i \in 1..3 |->
        (m[i][1] * v[1] + m[i][2] * v[2] + m[i][3] * v[3] + m[i][4] * 1000)
        \div 1000]

\* the origin, the three unit points and a point off every axis
ProbePoints ==
    {<<0, 0, 0>>, <<1000, 0, 0>>, <<0, 1000, 0>>, <<0, 0, 1000>>,
     <<1000, 2000, 3000>>}

IdentityMatrix ==
    <<<<1000, 0, 0, 0>>, <<0, 1000, 0, 0>>, <<0, 0, 1000, 0>>,
      <<0, 0, 0, 1000>>>>

\* a SetTransformations call with rotations by multiples of 90 degrees has
\* just returned, with a shader bound
TransformSet ==
    /\ lastCall.op = "SetTransformations"
    /\ m_pShaderManager = "bound"
    /\ \A i \in 1..3 : lastCall.xf.rot[i] \in RightAngles

\* the step is a SetTransformations call
TransformStep ==
    \/ pc = "idle" /\ pc' = "returned"
    \/ pc = "RenderScene" /\ RenderScript[scriptPos].op = "SetTransformations"

\* C11: with a shader bound, SetTransformations writes the model uniform and
\* no other; the matrix written places every point as translate * rotateZ *
\* rotateY * rotateX * scale does (scaled, turned about x, then y, then z,
\* then moved); with scale (1,1,1), no rotation and position (0,0,0) it is the
\* identity; with rotation (90,0,0), position p and unit scale it takes
\* (0,1,0) to p + (0,0,1).
C11_ModelMatrix ==
    /\ [](TransformSet =>
            /\ written = {g_ModelName}
            /\ uniforms.model[4] = <<0, 0, 0, 1000>>
            /\ \A v \in ProbePoints :
                  Transformed(uniforms.model, v) = Placed(lastCall.xf, v)
            /\ (/\ lastCall.xf.scale = <<1000, 1000, 1000>>
                /\ lastCall.xf.rot = <<0, 0, 0>>
                /\ lastCall.xf.pos = <<0, 0, 0>>)
               => uniforms.model = IdentityMatrix
            /\ (/\ lastCall.xf.scale = <<1000, 1000, 1000>>
                /\ lastCall.xf.rot = <<90000, 0, 0>>)
               => Transformed(uniforms.model, <<0, 1000, 0>>) =
                      <<lastCall.xf.pos[1], lastCall.xf.pos[2],
                        lastCall.xf.pos[3] + 1000>>)
    /\ [][TransformStep =>
            /\ [uniforms' EXCEPT !.model = uniforms.model] = uniforms
            /\ UNCHANGED <<registries, glState, liveImages, meshLoads,
                           crashed, lastFlagWriter>>]_vars

\* a call with a different scale on every axis, a quarter turn about each of
\* the three axes and a translation has set the model matrix
C11_Witness ==
    /\ TransformSet
    /\ written = {g_ModelName}
    /\ lastCall.xf.scale = <<1000, 2000, 1000>>
    /\ lastCall.xf.rot = <<90000, 90000, -90000>>
    /\ lastCall.xf.pos = <<1000, 0, -2000>>
    /\ uniforms.model # IdentityMatrix

-----------------------------------------------------------------------------
(* Properties of the scene script *)

\* C12 as stated: after PrepareScene, every tag RenderScene passes to
\* SetShaderMaterial is the tag of a defined material, so the material
\* uniforms a call writes are the values of the first material with that tag.
C12_RenderMaterialsDefined ==
    (/\ lastCall.op = "SetShaderMaterial"
     /\ prepareCount > 0
     /\ written # {})
    => /\ MaterialFound(lastCall.tag)
       /\ LET m == m_objectMaterials[FirstMaterial(lastCall.tag)] IN
          /\ uniforms.material_diffuseColor = m.diffuseColor
          /\ uniforms.material_specularColor = m.specularColor
          /\ uniforms.material_shininess = m.shininess

====
